---- MODULE Spec2Model ----
(***************************************************************************)
(* Model of trinity/chains/__init__.py: genesis config validation, data    *)
(* directory bootstrap, chain database initialisation, exception           *)
(* forwarding and the chaindb manager that hosts the shared resources.     *)
(***************************************************************************)
EXTENDS Integers, Sequences, FiniteSets, TLC

VARIABLES
    genesis,          \* the decoded genesis JSON config (a dict: key -> value)
    validateResult,   \* outcome of the last is_valid_genesis_header(genesis)
    deriveResult,     \* outcome of the last get_genesis_header(genesis)
    chain_config,     \* the ChainConfig handed to the bootstrap functions
    fs,               \* which paths of the layout exist, and the nodekey file's bytes
    dirResult,        \* outcome of the last initialize_data_dir(chain_config)
    dirBefore,        \* the layout as the last initialize_data_dir found it
    ensured,          \* an initialize_data_dir call has returned normally
    probeResult,      \* outcome of the last is_data_dir_initialized(chain_config)
    chaindb,          \* the chain database: stored headers and canonical head
    dbStart,          \* the chain database as the run found it
    dbBefore,         \* the chain database as the last initialize_database found it
    dbResult,         \* outcome of the last initialize_database(chain_config, chaindb)
    dbPersisted,      \* the headers the last initialize_database passed to persist_header
    persistLog,       \* every persist_header call initialize_database has made
    dbCalls,          \* number of initialize_database calls made
    dbProbe,          \* outcome of the last is_database_initialized(chaindb)
    hostPc,           \* where the hosting process is in get_chaindb_manager
    chain_class,      \* the chain class get_chaindb_manager selected
    threads,          \* per client connection: the host thread serving it
    wire,             \* per client connection: the reply in flight to the client
    clientSeen,       \* per client: what its last proxy call returned or raised
    hostRaised,       \* per client: the exception its last call raised in the host
    importLog,        \* the import_block calls completed, in order of completion
    managers,         \* per hosting process: its manager's state, data dir and address
    endpoints,        \* the IPC addresses a listening manager holds
    startResult,      \* per hosting process: outcome of its last start of the manager
    startSaw,         \* per hosting process: the hosts listening on its data dir at that start
    regPc,            \* the state of the manager whose registry is followed
    objects,          \* the resource instances get_chaindb_manager holds, by name
    constructed,      \* every resource instance constructed so far
    recorders,        \* the TracebackRecorder made for each proxy request, in order
    lookup            \* the last attribute fetched through a TracebackRecorder

genesisVars == <<genesis, validateResult, deriveResult>>
dirVars == <<fs, dirResult, dirBefore, ensured, probeResult>>
dbVars == <<chaindb, dbStart, dbBefore, dbResult, dbPersisted, persistLog,
            dbCalls, dbProbe>>
dbHistory == <<dbStart, dbBefore, dbResult, dbPersisted, persistLog, dbCalls,
               dbProbe>>
hostVars == <<hostPc, chain_class, threads, wire, clientSeen, hostRaised,
              importLog>>
endpointVars == <<managers, endpoints, startResult, startSaw>>
registryVars == <<regPc, objects, constructed, recorders, lookup>>
vars == <<genesis, validateResult, deriveResult, chain_config, fs, dirResult, dirBefore,
          ensured, probeResult, chaindb, dbStart, dbBefore, dbResult,
          dbPersisted, persistLog, dbCalls, dbProbe, hostPc, chain_class,
          threads, wire, clientSeen, hostRaised, importLog, managers,
          endpoints, startResult, startSaw, regPc, objects, constructed,
          recorders, lookup>>

(***************************************************************************)
(* Outcomes of a call: a normal return of a value, or a raised exception.  *)
(***************************************************************************)
NotCalled == [kind |-> "not_called", value |-> "", type |-> "", msg |-> ""]
Return(v) == [kind |-> "return", value |-> v, type |-> "", msg |-> ""]
Raise(t, m) == [kind |-> "raise", value |-> "", type |-> t, msg |-> m]

(***************************************************************************)
(* Genesis config                                                          *)
(***************************************************************************)
\* The keys is_valid_genesis_header asks for, in the order of its checks.
RequiredKeys == <<"chainId", "difficulty", "gasLimit", "nonce", "extraData">>

\* Number of distinct values a genesis key may carry in the model.
NumValues == 2

GenesisValues == 1..NumValues

RequiredKeySet == {RequiredKeys[i] : i \in 1..Len(RequiredKeys)}

\* Every dict over the required keys: each key absent or bound to a value.
GenesisConfigs == UNION {[K -> GenesisValues] : K \in SUBSET RequiredKeySet}

\* "genesis config missing required '<key>'": the message is modelled by the
\* key it names.
MissingMessage(key) == key

\* Faulty variant: the 'difficulty' test is made before the 'chainId' test.
is_valid_genesis_header_reordered(g) ==
    IF "difficulty" \notin DOMAIN g
        THEN Raise("ValidationError", MissingMessage("difficulty"))
    ELSE IF "chainId" \notin DOMAIN g
        THEN Raise("ValidationError", MissingMessage("chainId"))
    ELSE IF "gasLimit" \notin DOMAIN g
        THEN Raise("ValidationError", MissingMessage("gasLimit"))
    ELSE IF "nonce" \notin DOMAIN g
        THEN Raise("ValidationError", MissingMessage("nonce"))
    ELSE IF "extraData" \notin DOMAIN g
        THEN Raise("ValidationError", MissingMessage("extraData"))
    ELSE Return("True")

\* Faulty variant: the 'difficulty' test (lines 74-75) is left out.
is_valid_genesis_header_no_difficulty(g) ==
    IF "chainId" \notin DOMAIN g
        THEN Raise("ValidationError", MissingMessage("chainId"))
    ELSE IF "gasLimit" \notin DOMAIN g
        THEN Raise("ValidationError", MissingMessage("gasLimit"))
    ELSE IF "nonce" \notin DOMAIN g
        THEN Raise("ValidationError", MissingMessage("nonce"))
    ELSE IF "extraData" \notin DOMAIN g
        THEN Raise("ValidationError", MissingMessage("extraData"))
    ELSE Return("True")

\* is_valid_genesis_header(genesis): the chain of membership tests, each
\* raising ValidationError for its key; True when none raised.
is_valid_genesis_header(g) ==
    IF "chainId" \notin DOMAIN g
        THEN Raise("ValidationError", MissingMessage("chainId"))
    ELSE IF "difficulty" \notin DOMAIN g
        THEN Raise("ValidationError", MissingMessage("difficulty"))
    ELSE IF "gasLimit" \notin DOMAIN g
        THEN Raise("ValidationError", MissingMessage("gasLimit"))
    ELSE IF "nonce" \notin DOMAIN g
        THEN Raise("ValidationError", MissingMessage("nonce"))
    ELSE IF "extraData" \notin DOMAIN g
        THEN Raise("ValidationError", MissingMessage("extraData"))
    ELSE Return("True")

\* `constants.ZERO_HASH32`: the module binds the name eth (import
\* eth.constants) and never the name constants, so evaluating the argument
\* raises NameError.
constants_ZERO_HASH32 == Raise("NameError", "constants")

\* get_genesis_header(genesis): the arguments of BlockHeader(...) are
\* evaluated in the order written: genesis['difficulty'],
\* genesis['extraData'], genesis['gasLimit'] (KeyError for an absent key),
\* the literals, then constants.ZERO_HASH32.
get_genesis_header(g) ==
    IF "difficulty" \notin DOMAIN g THEN Raise("KeyError", "difficulty")
    ELSE IF "extraData" \notin DOMAIN g THEN Raise("KeyError", "extraData")
    ELSE IF "gasLimit" \notin DOMAIN g THEN Raise("KeyError", "gasLimit")
    ELSE constants_ZERO_HASH32

(***************************************************************************)
(* ChainConfig                                                             *)
(***************************************************************************)
\* Number of distinct node keys ecies.generate_privkey() may return.
NumKeys == 2

Keys == 1..NumKeys

\* No key: chain_config.nodekey is None, or no nodekey file exists.
NoKey == 0

MAINNET_NETWORK_ID == 1

ROPSTEN_NETWORK_ID == 3

\* The largest network id a config carries in the model.
MaxNetworkId == 4

NetworkIds == 0..MaxNetworkId

\* The custom genesis headers a private chain's config may carry.
CustomHeaders == {"CUSTOM_GENESIS_A", "CUSTOM_GENESIS_B"}

\* data_dir_xdg, logdir_xdg: is_under_xdg_trinity_root of the two paths;
\* explicit_nodekey: the key the config was given directly (then it has no
\* nodekey path), or NoKey.
ChainConfigs ==
    [data_dir_xdg : BOOLEAN, logdir_xdg : BOOLEAN, explicit_nodekey : {NoKey} \cup Keys,
     network_id : NetworkIds, custom_genesis : CustomHeaders]

DefaultConfig ==
    [data_dir_xdg |-> TRUE, logdir_xdg |-> TRUE, explicit_nodekey |-> NoKey,
     network_id |-> MAINNET_NETWORK_ID, custom_genesis |-> "CUSTOM_GENESIS_A"]

is_under_xdg_trinity_root(cfg, path) ==
    IF path = "data_dir" THEN cfg.data_dir_xdg ELSE cfg.logdir_xdg

\* chain_config.nodekey_path is None: the config has an explicitly given key.
nodekey_path_is_None(cfg) == cfg.explicit_nodekey # NoKey

\* chain_config.nodekey: the explicitly given key, else the key loaded from
\* the file at nodekey_path, else None.
nodekey(cfg, f) ==
    IF cfg.explicit_nodekey # NoKey THEN cfg.explicit_nodekey ELSE f.nodekey_file

(***************************************************************************)
(* Data directory                                                          *)
(***************************************************************************)
\* The layout on disk. A log file exists only inside an existing log dir.
Layouts ==
    {f \in [data_dir : BOOLEAN, database_dir : BOOLEAN, logdir : BOOLEAN,
            logfile : BOOLEAN, nodekey_file : {NoKey} \cup Keys] :
        f.logfile => f.logdir}

FreshLayout ==
    [data_dir |-> FALSE, database_dir |-> FALSE, logdir |-> FALSE,
     logfile |-> FALSE, nodekey_file |-> NoKey]

\* Faulty variant: the log file is not looked for.
is_data_dir_initialized_no_logfile(cfg, f) ==
    IF ~f.data_dir THEN FALSE
    ELSE IF ~f.database_dir THEN FALSE
    ELSE IF ~f.logdir THEN FALSE
    ELSE IF ~nodekey_path_is_None(cfg) /\ f.nodekey_file = NoKey THEN FALSE
    ELSE IF nodekey(cfg, f) = NoKey THEN FALSE
    ELSE TRUE

is_data_dir_initialized(cfg, f) ==
    IF ~f.data_dir THEN FALSE
    ELSE IF ~f.database_dir THEN FALSE
    ELSE IF ~f.logdir THEN FALSE
    ELSE IF ~f.logfile THEN FALSE
    ELSE IF ~nodekey_path_is_None(cfg) /\ f.nodekey_file = NoKey THEN FALSE
    ELSE IF nodekey(cfg, f) = NoKey THEN FALSE
    ELSE TRUE

\* `raise MissingPath(...)`: the module neither imports nor defines the name
\* MissingPath, so evaluating the raise statement's operand raises NameError.
RaiseMissingPath(path) == Raise("NameError", "MissingPath")

\* Faulty variant: the nodekey is generated and written whenever a nodekey path is
\* configured, without the `nodekey is None` test.
initialize_data_dir_always_writes_key(cfg, f, newkey) ==
    LET f1 == IF ~f.data_dir /\ is_under_xdg_trinity_root(cfg, "data_dir")
                  THEN [f EXCEPT !.data_dir = TRUE] ELSE f
        f2 == IF ~f1.logdir /\ is_under_xdg_trinity_root(cfg, "logdir_path")
                  THEN [f1 EXCEPT !.logdir = TRUE, !.logfile = TRUE] ELSE f1
        f3 == [f2 EXCEPT !.database_dir = TRUE]
        f4 == IF ~nodekey_path_is_None(cfg)
                  THEN [f3 EXCEPT !.nodekey_file = newkey] ELSE f3
    IN  IF ~f.data_dir /\ ~is_under_xdg_trinity_root(cfg, "data_dir")
            THEN [fs |-> f, result |-> RaiseMissingPath("data_dir")]
        ELSE IF ~f1.logdir /\ ~is_under_xdg_trinity_root(cfg, "logdir_path")
            THEN [fs |-> f1, result |-> RaiseMissingPath("logdir_path")]
        ELSE [fs |-> f4, result |-> Return("None")]

\* Faulty variant: the log dir is created without touching the log file.
initialize_data_dir_no_touch(cfg, f, newkey) ==
    LET f1 == IF ~f.data_dir /\ is_under_xdg_trinity_root(cfg, "data_dir")
                  THEN [f EXCEPT !.data_dir = TRUE] ELSE f
        f2 == IF ~f1.logdir /\ is_under_xdg_trinity_root(cfg, "logdir_path")
                  THEN [f1 EXCEPT !.logdir = TRUE] ELSE f1
        f3 == [f2 EXCEPT !.database_dir = TRUE]
        f4 == IF nodekey(cfg, f3) = NoKey
                  THEN [f3 EXCEPT !.nodekey_file = newkey] ELSE f3
    IN  IF ~f.data_dir /\ ~is_under_xdg_trinity_root(cfg, "data_dir")
            THEN [fs |-> f, result |-> RaiseMissingPath("data_dir")]
        ELSE IF ~f1.logdir /\ ~is_under_xdg_trinity_root(cfg, "logdir_path")
            THEN [fs |-> f1, result |-> RaiseMissingPath("logdir_path")]
        ELSE [fs |-> f4, result |-> Return("None")]

\* Faulty variant: a key is generated and never written to nodekey_path.
initialize_data_dir_key_not_written(cfg, f, newkey) ==
    LET f1 == IF ~f.data_dir /\ is_under_xdg_trinity_root(cfg, "data_dir")
                  THEN [f EXCEPT !.data_dir = TRUE] ELSE f
        f2 == IF ~f1.logdir /\ is_under_xdg_trinity_root(cfg, "logdir_path")
                  THEN [f1 EXCEPT !.logdir = TRUE, !.logfile = TRUE] ELSE f1
        f3 == [f2 EXCEPT !.database_dir = TRUE]
    IN  IF ~f.data_dir /\ ~is_under_xdg_trinity_root(cfg, "data_dir")
            THEN [fs |-> f, result |-> RaiseMissingPath("data_dir")]
        ELSE IF ~f1.logdir /\ ~is_under_xdg_trinity_root(cfg, "logdir_path")
            THEN [fs |-> f1, result |-> RaiseMissingPath("logdir_path")]
        ELSE [fs |-> f3, result |-> Return("None")]

\* Faulty variant: the database dir is made before the log dir is looked at.
initialize_data_dir_database_first(cfg, f, newkey) ==
    LET f1 == IF ~f.data_dir /\ is_under_xdg_trinity_root(cfg, "data_dir")
                  THEN [f EXCEPT !.data_dir = TRUE] ELSE f
        f2 == [f1 EXCEPT !.database_dir = TRUE]
        f3 == IF ~f2.logdir /\ is_under_xdg_trinity_root(cfg, "logdir_path")
                  THEN [f2 EXCEPT !.logdir = TRUE, !.logfile = TRUE] ELSE f2
        f4 == IF nodekey(cfg, f3) = NoKey
                  THEN [f3 EXCEPT !.nodekey_file = newkey] ELSE f3
    IN  IF ~f.data_dir /\ ~is_under_xdg_trinity_root(cfg, "data_dir")
            THEN [fs |-> f, result |-> RaiseMissingPath("data_dir")]
        ELSE IF ~f2.logdir /\ ~is_under_xdg_trinity_root(cfg, "logdir_path")
            THEN [fs |-> f2, result |-> RaiseMissingPath("logdir_path")]
        ELSE [fs |-> f4, result |-> Return("None")]

\* initialize_data_dir(chain_config) on layout f, newkey being the key
\* ecies.generate_privkey() returns if it is called: the layout it leaves and
\* its outcome.
\*   f1: the base dir, made when missing and under the XDG trinity root;
\*   f2: the log dir made and the log file touched, on the same condition;
\*   f3: os.makedirs(database_dir, exist_ok=True);
\*   f4: a new key written to nodekey_path when chain_config.nodekey is None.
initialize_data_dir(cfg, f, newkey) ==
    LET f1 == IF ~f.data_dir /\ is_under_xdg_trinity_root(cfg, "data_dir")
                  THEN [f EXCEPT !.data_dir = TRUE] ELSE f
        f2 == IF ~f1.logdir /\ is_under_xdg_trinity_root(cfg, "logdir_path")
                  THEN [f1 EXCEPT !.logdir = TRUE, !.logfile = TRUE] ELSE f1
        f3 == [f2 EXCEPT !.database_dir = TRUE]
        f4 == IF nodekey(cfg, f3) = NoKey
                  THEN [f3 EXCEPT !.nodekey_file = newkey] ELSE f3
    IN  IF ~f.data_dir /\ ~is_under_xdg_trinity_root(cfg, "data_dir")
            THEN [fs |-> f, result |-> RaiseMissingPath("data_dir")]
        ELSE IF ~f1.logdir /\ ~is_under_xdg_trinity_root(cfg, "logdir_path")
            THEN [fs |-> f1, result |-> RaiseMissingPath("logdir_path")]
        ELSE [fs |-> f4, result |-> Return("None")]

(***************************************************************************)
(* Chain database                                                          *)
(***************************************************************************)
\* The blocks clients import on top of the genesis header.
Blocks == {"BLOCK_A", "BLOCK_B"}

FixedGenesisHeaders == {"MAINNET_GENESIS_HEADER", "ROPSTEN_GENESIS_HEADER"}

Headers == FixedGenesisHeaders \cup CustomHeaders \cup Blocks

\* The total difficulty of the chain ending in a header: a genesis header's
\* own difficulty, a block's added to it.
Score(h) ==
    IF h = "BLOCK_A" THEN 3
    ELSE IF h = "BLOCK_B" THEN 2
    ELSE 1

\* No canonical head: get_canonical_head raises CanonicalHeadNotFound.
NoHead == "no_canonical_head"

EmptyChainDB == [canonical_head |-> NoHead, headers |-> {}]

\* A canonical head entry the store cannot give back: get_canonical_head
\* fails with an error of the store, not with CanonicalHeadNotFound.
Unreadable == "unreadable_canonical_head"

UnreadableChainDB == [canonical_head |-> Unreadable, headers |-> {}]

\* A database that holds a chain whose canonical head is h.
ChainDBWithHead(h) == [canonical_head |-> h, headers |-> {h}]

get_canonical_head(db) ==
    IF db.canonical_head = NoHead
        THEN Raise("CanonicalHeadNotFound", "")
    ELSE IF db.canonical_head = Unreadable
        THEN Raise("OSError", "")
    ELSE Return(db.canonical_head)

\* chaindb.persist_header(header): the header is stored, and becomes the
\* canonical head when there is none yet or its score is the higher one.
persist_header(db, h) ==
    [canonical_head |->
        IF db.canonical_head = NoHead \/ Score(h) > Score(db.canonical_head)
            THEN h ELSE db.canonical_head,
     headers |-> db.headers \cup {h}]

\* chain_config.genesis_header(): the custom genesis header of the config.
genesis_header(cfg) == cfg.custom_genesis

\* Faulty variant: every failure of get_canonical_head is caught.
is_database_initialized_catch_all(db) ==
    LET head == get_canonical_head(db)
    IN  IF head.kind = "raise" THEN Return("False") ELSE Return("True")

\* is_database_initialized(chaindb): False when get_canonical_head raises
\* CanonicalHeadNotFound, True when it returns; any other exception is not
\* caught.
is_database_initialized(db) ==
    LET head == get_canonical_head(db)
    IN  IF head.kind = "raise" /\ head.type = "CanonicalHeadNotFound"
            THEN Return("False")
        ELSE IF head.kind = "raise" THEN head
        ELSE Return("True")

\* Faulty variant: the genesis header is persisted without looking for a canonical
\* head first.
initialize_database_unconditional(cfg, db) ==
    LET h == IF cfg.network_id = ROPSTEN_NETWORK_ID THEN "ROPSTEN_GENESIS_HEADER"
             ELSE IF cfg.network_id = MAINNET_NETWORK_ID THEN "MAINNET_GENESIS_HEADER"
             ELSE genesis_header(cfg)
    IN  [chaindb |-> persist_header(db, h), persisted |-> <<h>>,
         result |-> Return("None")]

\* Faulty variant: the two fixed genesis headers are exchanged.
initialize_database_exchanged(cfg, db) ==
    IF get_canonical_head(db).type = "CanonicalHeadNotFound"
        THEN LET h == IF cfg.network_id = ROPSTEN_NETWORK_ID
                          THEN "MAINNET_GENESIS_HEADER"
                      ELSE IF cfg.network_id = MAINNET_NETWORK_ID
                          THEN "ROPSTEN_GENESIS_HEADER"
                      ELSE genesis_header(cfg)
             IN  [chaindb |-> persist_header(db, h), persisted |-> <<h>>,
                  result |-> Return("None")]
    ELSE IF get_canonical_head(db).kind = "raise"
        THEN [chaindb |-> db, persisted |-> <<>>, result |-> get_canonical_head(db)]
    ELSE [chaindb |-> db, persisted |-> <<>>, result |-> Return("None")]

\* initialize_database(chain_config, chaindb): the database it leaves, the
\* headers it passed to persist_header, and its outcome. Only
\* CanonicalHeadNotFound is caught; any other exception of get_canonical_head
\* leaves the call.
initialize_database(cfg, db) ==
    IF get_canonical_head(db).type = "CanonicalHeadNotFound"
        THEN LET h == IF cfg.network_id = ROPSTEN_NETWORK_ID
                          THEN "ROPSTEN_GENESIS_HEADER"
                      ELSE IF cfg.network_id = MAINNET_NETWORK_ID
                          THEN "MAINNET_GENESIS_HEADER"
                      ELSE genesis_header(cfg)
             IN  [chaindb |-> persist_header(db, h), persisted |-> <<h>>,
                  result |-> Return("None")]
    ELSE IF get_canonical_head(db).kind = "raise"
        THEN [chaindb |-> db, persisted |-> <<>>, result |-> get_canonical_head(db)]
    ELSE [chaindb |-> db, persisted |-> <<>>, result |-> Return("None")]

(***************************************************************************)
(* Exception forwarding                                                    *)
(***************************************************************************)
\* The text traceback.format_exception gives when there is nothing to format.
NoText == <<>>

\* An exception object without a __cause__.
NoCause == [type |-> "None", tb |-> NoText]

\* No exception.
NoException == [type |-> "None", msg |-> "", traceback |-> "None", cause |-> NoCause]

\* The exception a method raises in the hosting process: its __traceback__
\* holds the host's live frames.
HostException(t, m) ==
    [type |-> t, msg |-> m, traceback |-> "host frames", cause |-> NoCause]

\* ''.join(traceback.format_exception(type(exc), exc, tb)): the frames as
\* text, then the exception's type and message.
format_exception(exc, tb) == <<"Traceback (most recent call last):", tb, exc.type, exc.msg>>

\* RemoteTraceback(tb): an exception whose str() is the text it was given.
RemoteTraceback(tb) == [type |-> "RemoteTraceback", tb |-> tb]

\* ChainedExceptionWithTraceback(exc, tb).__init__: the formatted trace
\* between triple quotes, and the exception itself.
ChainedExceptionWithTraceback(exc, tb) ==
    [type |-> "ChainedExceptionWithTraceback",
     tb |-> <<"\n\"\"\"\n">> \o format_exception(exc, tb) \o <<"\"\"\"">>,
     exc |-> exc]

\* What a wrapped method call gives its caller: the value, or the exception
\* raised. An outcome is [kind, value, exc].
Returned(v) == [kind |-> "return", value |-> v, exc |-> NoException]
Raised(e) == [kind |-> "raise", value |-> "", exc |-> e]
NoOutcome == [kind |-> "not_called", value |-> "", exc |-> NoException]

\* Faulty variant: the wrapper lets the exception through as it is.
record_traceback_on_error_unwrapped(outcome) == outcome

\* record_traceback_on_error(attr)(*args): attr's value is returned; an
\* Exception it raises is raised again inside a ChainedExceptionWithTraceback.
record_traceback_on_error(outcome) ==
    IF outcome.kind = "raise"
        THEN Raised(ChainedExceptionWithTraceback(outcome.exc, outcome.exc.traceback))
        ELSE outcome

\* Pickling an exception keeps its class and args; __traceback__ and
\* __cause__ are not part of the pickle.
pickle_exception(exc) ==
    [type |-> exc.type, msg |-> exc.msg, traceback |-> "None", cause |-> NoCause]

NoMessage ==
    [kind |-> "none", value |-> "", func |-> "", exc |-> NoException, tb |-> NoText]

\* The reply the manager's server sends for an outcome: ('#RETURN', value),
\* or ('#ERROR', e) with e pickled. A ChainedExceptionWithTraceback is
\* pickled through its __reduce__, as the call rebuild_exc(exc, tb); any
\* other exception as itself.
Reply(outcome) ==
    IF outcome.kind = "return"
        THEN [kind |-> "#RETURN", value |-> outcome.value, func |-> "",
              exc |-> NoException, tb |-> NoText]
    ELSE IF outcome.exc.type = "ChainedExceptionWithTraceback"
        THEN [kind |-> "#ERROR", value |-> "", func |-> "rebuild_exc",
              exc |-> pickle_exception(outcome.exc.exc), tb |-> outcome.exc.tb]
    ELSE [kind |-> "#ERROR", value |-> "", func |-> "",
          exc |-> pickle_exception(outcome.exc), tb |-> NoText]

\* Faulty variant: the exception is rebuilt without its cause.
rebuild_exc_without_cause(exc, tb) == exc

\* rebuild_exc(exc, tb): the exception, its __cause__ set to the remote trace.
rebuild_exc(exc, tb) == [exc EXCEPT !.cause = RemoteTraceback(tb)]

\* What the client's proxy call gives for a reply: the value, or the
\* unpickled exception raised.
Unpickle(m) ==
    IF m.kind = "#RETURN" THEN Returned(m.value)
    ELSE IF m.func = "rebuild_exc" THEN Raised(rebuild_exc(m.exc, m.tb))
    ELSE Raised(m.exc)

(***************************************************************************)
(* The chaindb manager                                                     *)
(***************************************************************************)
Clients == {"client_1", "client_2"}

\* Faulty variant: the database is handed on without the initialisation.
ensure_database_skipped(cfg, db) == db

\* Lines 269-270 of get_chaindb_manager: initialize_database runs when
\* is_database_initialized says no.
ensure_database(cfg, db) ==
    IF is_database_initialized(db) = Return("False")
        THEN initialize_database(cfg, db).chaindb
        ELSE db

\* Faulty variant: the two fixed chain classes are exchanged.
select_chain_class_exchanged(cfg) ==
    IF cfg.network_id = MAINNET_NETWORK_ID THEN "RopstenChain"
    ELSE IF cfg.network_id = ROPSTEN_NETWORK_ID THEN "MainnetChain"
    ELSE "PrivateChain"

\* Lines 271-276: the chain class for the config's network id.
select_chain_class(cfg) ==
    IF cfg.network_id = MAINNET_NETWORK_ID THEN "MainnetChain"
    ELSE IF cfg.network_id = ROPSTEN_NETWORK_ID THEN "RopstenChain"
    ELSE "PrivateChain"

\* The outcome of a method of the hosted chaindb, as the method gives it.
MethodOutcome(r) ==
    IF r.kind = "raise" THEN Raised(HostException(r.type, r.msg)) ELSE Returned(r.value)

\* chaindb.get_block_header_by_hash(h): the header, if it is stored.
get_block_header_by_hash(db, h) ==
    IF h \in db.headers THEN Return(h) ELSE Raise("HeaderNotFound", h)

\* chain.import_block(block), first part: the canonical head is read.
import_block_read(db) == db.canonical_head

\* chain.import_block(block), second part: the block is stored, and made the
\* canonical head when its score is higher than that of the head read.
import_block_write(db, b, seen) ==
    [canonical_head |-> IF Score(b) > Score(seen) THEN b ELSE db.canonical_head,
     headers |-> db.headers \cup {b}]

\* The host thread serving a client connection: idle, or inside import_block
\* ("importing") with the head it read, or past it ("imported").
IdleThread == [pc |-> "idle", block |-> "", seen |-> ""]

(***************************************************************************)
(* The manager's endpoint                                                  *)
(***************************************************************************)
\* Number of hosting processes that make a manager.
NumHosts == 3

Hosts == 1..NumHosts

\* The data directories the hosts' configs name.
DataDirs == {"data_dir_1", "data_dir_2"}

\* chain_config.database_ipc_path: the socket path inside the data dir.
database_ipc_path(dir) == <<dir, "db.ipc">>

\* Faulty variant: every manager is given one fixed address, whatever the
\* config's data dir.
manager_address_fixed(dir) == <<"trinity", "db.ipc">>

\* Line 309: DBManager(address=str(chain_config.database_ipc_path)).
manager_address(dir) == database_ipc_path(dir)

\* A hosting process that has not called get_chaindb_manager.
NoManager == [state |-> "Unregistered", data_dir |-> "", address |-> <<>>]

\* Starting a manager binds its address: refused while the address is held.
manager_start(held, address) ==
    IF address \in held
        THEN [endpoints |-> held, result |-> Raise("AddressInUseError", "")]
        ELSE [endpoints |-> held \cup {address}, result |-> Return("None")]

\* Shutting a manager down releases its address.
manager_shutdown(held, address) == held \ {address}

(***************************************************************************)
(* The registered resources                                                *)
(***************************************************************************)
\* The five names get_chaindb_manager registers (get_db, get_chaindb,
\* get_chain, get_headerdb, get_header_chain), by the resource they give.
ResourceNames == {"db", "chaindb", "chain", "headerdb", "header_chain"}

\* Number of proxy requests clients make.
MaxRequests == 2

\* No instance: the name's resource has not been made.
NoObject == 0

NoObjects == [n \in ResourceNames |-> NoObject]

\* The construction of resource instance id for name n.
Construction(n, id) == [name |-> n, id |-> id]

\* base_db, the store the caller of get_chaindb_manager made and passes in.
base_db == 1

\* Lines 267-280 of get_chaindb_manager: AsyncChainDB(base_db),
\* chain_class(base_db), AsyncHeaderDB(base_db) and AsyncHeaderChain(base_db)
\* are each constructed once, in this order; made is the sequence of
\* constructions so far.
construct_resources(made) ==
    LET k == Len(made)
    IN  [objects |-> [n \in ResourceNames |->
                        IF n = "db" THEN base_db
                        ELSE IF n = "chaindb" THEN k + 1
                        ELSE IF n = "chain" THEN k + 2
                        ELSE IF n = "headerdb" THEN k + 3
                        ELSE k + 4],
         constructed |-> made \o <<Construction("chaindb", k + 1),
                                    Construction("chain", k + 2),
                                    Construction("headerdb", k + 3),
                                    Construction("header_chain", k + 4)>>]

\* TracebackRecorder(obj).__init__: the recorder holds the instance.
TracebackRecorder(obj) == [obj |-> obj]

\* Faulty variant: the registered callable constructs the resource anew for
\* every request.
registered_callable_constructs(n, objs, made) ==
    [recorder |-> TracebackRecorder(Len(made) + 1),
     constructed |-> Append(made, Construction(n, Len(made) + 1))]

\* Lines 287-307: the callable registered for name n,
\* `lambda: TracebackRecorder(<the instance>)`, called for a proxy request:
\* a new recorder around the instance the function's variable holds.
registered_callable(n, objs, made) ==
    [recorder |-> TracebackRecorder(objs[n]), constructed |-> made]

\* The attributes of a resource: plain data, a bound method of a Python
\* class, a plain function (a staticmethod, or a function stored on the
\* instance), a builtin method of an extension type, or an object with
\* __call__; a callable one returns a value or raises.
AttrKinds == {"data", "method", "function", "builtin", "callable_object"}

Attributes ==
    {a \in [kind : AttrKinds, raises : BOOLEAN] : a.kind = "data" => ~a.raises}

NoAttribute == [kind |-> "none", raises |-> FALSE]

\* inspect.ismethod(attr): true of bound methods of Python functions only.
ismethod(attr) == attr.kind = "method"

\* callable(attr).
callable(attr) == attr.kind \in AttrKinds \ {"data"}

\* Calling the attribute itself.
call(attr) ==
    IF attr.raises
        THEN Raised(HostException("ValueError", attr.kind))
        ELSE Returned(attr.kind)

\* TracebackRecorder.__getattr__(name): the attribute itself unless it is a
\* method; a method inside record_traceback_on_error.
TracebackRecorder_getattr(attr) ==
    IF ~ismethod(attr)
        THEN [attr |-> attr, wrapped |-> FALSE]
        ELSE [attr |-> attr, wrapped |-> TRUE]

\* Calling what __getattr__ gave.
call_got(got) ==
    IF got.wrapped THEN record_traceback_on_error(call(got.attr)) ELSE call(got.attr)

NoLookup ==
    [name |-> "", attr |-> NoAttribute, got |-> NoAttribute, wrapped |-> FALSE,
     outcome |-> NoOutcome]

(***************************************************************************)
(* The parts of the state a specification leaves alone                     *)
(***************************************************************************)
GenesisIdle ==
    /\ genesis = <<>>
    /\ validateResult = NotCalled
    /\ deriveResult = NotCalled

ConfigIdle == chain_config = DefaultConfig

NoDirCall == [fs |-> FreshLayout, initialized |-> FALSE, ensured |-> FALSE]

DirIdle ==
    /\ fs = FreshLayout
    /\ dirResult = NotCalled
    /\ dirBefore = NoDirCall
    /\ ensured = FALSE
    /\ probeResult = NotCalled

\* Number of initialize_database calls a run makes.
MaxDbCalls == 3

DbIdle ==
    /\ chaindb = EmptyChainDB
    /\ dbStart = EmptyChainDB
    /\ dbBefore = EmptyChainDB
    /\ dbResult = NotCalled
    /\ dbPersisted = <<>>
    /\ persistLog = <<>>
    /\ dbCalls = 0
    /\ dbProbe = NotCalled

HostIdle ==
    /\ hostPc = "start"
    /\ chain_class = "None"
    /\ threads = [c \in Clients |-> IdleThread]
    /\ wire = [c \in Clients |-> NoMessage]
    /\ clientSeen = [c \in Clients |-> NoOutcome]
    /\ hostRaised = [c \in Clients |-> NoException]
    /\ importLog = <<>>

EndpointIdle ==
    /\ managers = [h \in Hosts |-> NoManager]
    /\ endpoints = {}
    /\ startResult = [h \in Hosts |-> NotCalled]
    /\ startSaw = [h \in Hosts |-> {}]

RegistryIdle ==
    /\ regPc = "Unregistered"
    /\ objects = NoObjects
    /\ constructed = <<>>
    /\ recorders = <<>>
    /\ lookup = NoLookup

(***************************************************************************)
(* Genesis validation: specification and claims                            *)
(***************************************************************************)
GenesisStart ==
    /\ genesis \in GenesisConfigs
    /\ validateResult = NotCalled
    /\ deriveResult = NotCalled

\* A caller validates the config it holds.
ValidateGenesis ==
    /\ validateResult' = is_valid_genesis_header(genesis)
    /\ UNCHANGED <<genesis, deriveResult, chain_config, dirVars, dbVars, hostVars,
                   endpointVars, registryVars>>

\* A caller derives the genesis header and network id of the config it holds.
DeriveGenesis ==
    /\ deriveResult' = get_genesis_header(genesis)
    /\ UNCHANGED <<genesis, validateResult, chain_config, dirVars, dbVars, hostVars,
                   endpointVars, registryVars>>

\* A caller loads another genesis config.
LoadGenesis ==
    /\ genesis' \in GenesisConfigs
    /\ validateResult' = NotCalled
    /\ deriveResult' = NotCalled
    /\ UNCHANGED <<chain_config, dirVars, dbVars, hostVars, endpointVars,
                   registryVars>>

GenesisNext == ValidateGenesis \/ DeriveGenesis \/ LoadGenesis

GenesisInit ==
    GenesisStart /\ ConfigIdle /\ DirIdle /\ DbIdle /\ HostIdle /\ EndpointIdle
        /\ RegistryIdle

SpecGenesis == GenesisInit /\ [][GenesisNext]_vars

Validated == validateResult.kind # "not_called"

MissingIndexes == {i \in 1..Len(RequiredKeys) : RequiredKeys[i] \notin DOMAIN genesis}

\* C6: is_valid_genesis_header returns True exactly when all five required
\* keys are present, and otherwise raises ValidationError naming the first
\* key, in the order chainId, difficulty, gasLimit, nonce, extraData, that
\* the config lacks.
C6_FirstMissingKeyNamed ==
    Validated =>
        IF MissingIndexes = {}
            THEN validateResult = Return("True")
            ELSE \E i \in MissingIndexes :
                    /\ \A j \in MissingIndexes : i <= j
                    /\ validateResult = Raise("ValidationError", RequiredKeys[i])

\* A config lacking nonce and extraData (and nothing before them) was
\* validated and the error names nonce.
C6_Witness ==
    /\ Validated
    /\ MissingIndexes = {4, 5}
    /\ validateResult = Raise("ValidationError", "nonce")

\* C7 as stated: a config without 'difficulty' is rejected with an error
\* naming 'difficulty', whichever other keys are present.
C7_DifficultyAlwaysNamed ==
    (Validated /\ "difficulty" \notin DOMAIN genesis) =>
        validateResult = Raise("ValidationError", "difficulty")

\* C7 amended: a config without 'difficulty' is always rejected with
\* ValidationError, whichever other keys are present; the error names
\* 'difficulty' when 'chainId' is present and 'chainId' when it is absent too.
C7_DifficultyNamedUnlessChainIdMissing ==
    (Validated /\ "difficulty" \notin DOMAIN genesis) =>
        validateResult = Raise("ValidationError",
                               IF "chainId" \in DOMAIN genesis
                                   THEN "difficulty" ELSE "chainId")

\* A config with chainId but without difficulty and gasLimit was validated
\* and the error names difficulty.
C7_Witness ==
    /\ Validated
    /\ DOMAIN genesis = {"chainId", "nonce", "extraData"}
    /\ validateResult = Raise("ValidationError", "difficulty")

Derived == deriveResult.kind # "not_called"

\* The header the claim has get_genesis_header return for config g: g's
\* difficulty, extraData, gasLimit and nonce, every other field the fixed
\* default.
GenesisHeaderOf(g) ==
    [difficulty |-> g["difficulty"], extra_data |-> g["extraData"],
     gas_limit |-> g["gasLimit"], gas_used |-> 0, bloom |-> 0,
     mix_hash |-> "ZERO_HASH32", nonce |-> g["nonce"], block_number |-> 0,
     parent_hash |-> "ZERO_HASH32", receipt_root |-> "BLANK_ROOT_HASH",
     uncles_hash |-> "EMPTY_UNCLE_HASH", state_root |-> "0xd7f8974f",
     timestamp |-> 0, transaction_root |-> "BLANK_ROOT_HASH"]

\* C12 as stated: whenever get_genesis_header has been called on a config
\* with the five keys, however many calls and loads came before, it
\* returned the header made of the config's difficulty, extraData, gasLimit
\* and nonce and the fixed defaults, with the network id decoded from
\* chainId.
C12_DeriveDeterministic ==
    (Derived /\ RequiredKeySet \subseteq DOMAIN genesis) =>
        /\ deriveResult.kind = "return"
        /\ deriveResult.value.header = GenesisHeaderOf(genesis)
        /\ deriveResult.value.network_id = <<"decode_hex", genesis["chainId"]>>

(***************************************************************************)
(* Data directory: specification and claims                                *)
(***************************************************************************)
DirInit ==
    /\ GenesisIdle
    /\ DbIdle
    /\ HostIdle
    /\ EndpointIdle
    /\ RegistryIdle
    /\ chain_config \in {c \in ChainConfigs :
                            /\ c.network_id = DefaultConfig.network_id
                            /\ c.custom_genesis = DefaultConfig.custom_genesis}
    /\ fs \in Layouts
    /\ dirResult = NotCalled
    /\ dirBefore = NoDirCall
    /\ ensured = FALSE
    /\ probeResult = NotCalled

\* A caller runs initialize_data_dir(chain_config).
InitializeDataDir ==
    \E newkey \in Keys :
        LET out == initialize_data_dir(chain_config, fs, newkey)
        IN  /\ fs' = out.fs
            /\ dirResult' = out.result
            /\ dirBefore' = [fs |-> fs,
                             initialized |-> is_data_dir_initialized(chain_config, fs),
                             ensured |-> ensured]
            /\ ensured' = (ensured \/ out.result.kind = "return")
            /\ probeResult' = NotCalled
            /\ UNCHANGED <<genesisVars, endpointVars, registryVars,
                           chain_config, dbVars, hostVars>>

\* A caller runs is_data_dir_initialized(chain_config).
ProbeDataDir ==
    /\ probeResult' = Return(IF is_data_dir_initialized(chain_config, fs)
                                 THEN "True" ELSE "False")
    /\ UNCHANGED <<genesisVars, endpointVars, registryVars,
                   chain_config, fs, dirResult, dirBefore, ensured, dbVars,
                   hostVars>>

DirNext == InitializeDataDir \/ ProbeDataDir

SpecDataDir == DirInit /\ [][DirNext]_vars

DirCalled == dirResult.kind # "not_called"

\* The layout the last initialize_data_dir call found was fresh: no dir, no
\* file, and no nodekey loaded.
WasFresh ==
    /\ dirBefore.fs = FreshLayout
    /\ nodekey(chain_config, dirBefore.fs) = NoKey

C4_Idempotent ==
    (DirCalled /\ (dirBefore.ensured \/ dirBefore.initialized)) =>
        fs = dirBefore.fs

\* A second initialize_data_dir call ran on a layout whose nodekey file an
\* earlier call had written.
C4_Witness ==
    /\ DirCalled
    /\ dirBefore.ensured
    /\ chain_config.explicit_nodekey = NoKey
    /\ dirBefore.fs.nodekey_file # NoKey
    /\ fs = dirBefore.fs

\* C5 as stated: a missing base dir is created exactly when it lies under
\* the XDG trinity root; otherwise the call fails with MissingPath naming the
\* base dir and creates nothing.
C5_MissingBaseDir ==
    (DirCalled /\ ~dirBefore.fs.data_dir) =>
        /\ fs.data_dir = chain_config.data_dir_xdg
        /\ ~chain_config.data_dir_xdg =>
               /\ dirResult = Raise("MissingPath", "data_dir")
               /\ fs = dirBefore.fs

\* C13 as stated: after every initialize_data_dir call that returned
\* normally, from whatever layout, the log file exists.
C13_LogFileEnsured ==
    dirResult = Return("None") => fs.logfile

Probed == probeResult.kind # "not_called"

KeyWritten == fs.nodekey_file # dirBefore.fs.nodekey_file

\* C15 as stated: a call that returned normally generated a key and wrote it
\* to the nodekey path exactly when no nodekey path is configured or the
\* file at the path was absent; after it a nodekey is present and is the
\* file's, if a path is configured.
C15_KeyGeneratedWhenPathUnsetOrFileAbsent ==
    dirResult = Return("None") =>
        /\ KeyWritten <=>
               (nodekey_path_is_None(chain_config) \/ dirBefore.fs.nodekey_file = NoKey)
        /\ nodekey(chain_config, fs) # NoKey
        /\ ~nodekey_path_is_None(chain_config)
               => fs.nodekey_file = nodekey(chain_config, fs)

\* C15 amended: a call that returned normally generated a key and wrote it
\* to the nodekey path exactly when no nodekey was loaded, that is when a
\* nodekey path is configured and the file at the path was absent; with no
\* path configured the config carries its key and none is generated. After
\* the call a nodekey is present and is the file's, if a path is configured.
C15_KeyGeneratedWhenNoneLoaded ==
    dirResult = Return("None") =>
        /\ KeyWritten <=> nodekey(chain_config, dirBefore.fs) = NoKey
        /\ KeyWritten <=>
               (~nodekey_path_is_None(chain_config) /\ dirBefore.fs.nodekey_file = NoKey)
        /\ KeyWritten => fs.nodekey_file \in Keys
        /\ nodekey(chain_config, fs) # NoKey
        /\ ~nodekey_path_is_None(chain_config)
               => fs.nodekey_file = nodekey(chain_config, fs)

\* A call on a layout with every dir and the log file, but no nodekey file,
\* wrote a new key to the configured path.
C15_Witness ==
    /\ dirResult = Return("None")
    /\ ~nodekey_path_is_None(chain_config)
    /\ dirBefore.fs.data_dir
    /\ dirBefore.fs.logfile
    /\ dirBefore.fs.nodekey_file = NoKey
    /\ fs.nodekey_file \in Keys
    /\ nodekey(chain_config, fs) = fs.nodekey_file

\* C19: a call that failed did so at one of the two `raise MissingPath`
\* statements, made no database dir, no log dir or log file and no nodekey
\* file; it left the layout as it found it, or made just the base dir, under
\* the XDG trinity root, before the log dir test failed.
C19_FailureCreatesAtMostBaseDir ==
    (DirCalled /\ dirResult.kind = "raise") =>
        /\ dirResult \in {RaiseMissingPath("data_dir"), RaiseMissingPath("logdir_path")}
        /\ fs.database_dir = dirBefore.fs.database_dir
        /\ fs.nodekey_file = dirBefore.fs.nodekey_file
        /\ fs.logdir = dirBefore.fs.logdir
        /\ fs.logfile = dirBefore.fs.logfile
        /\ \/ fs = dirBefore.fs
           \/ /\ fs = [dirBefore.fs EXCEPT !.data_dir = TRUE]
              /\ ~dirBefore.fs.data_dir
              /\ is_under_xdg_trinity_root(chain_config, "data_dir")
              /\ ~fs.logdir
              /\ ~is_under_xdg_trinity_root(chain_config, "logdir_path")

\* A call made the base dir and then failed at the log dir test, with no
\* database dir and no nodekey file made.
C19_Witness ==
    /\ dirResult.kind = "raise"
    /\ ~dirBefore.fs.data_dir
    /\ fs.data_dir
    /\ ~fs.database_dir
    /\ fs.nodekey_file = NoKey
    /\ nodekey(chain_config, fs) = NoKey

(***************************************************************************)
(* Chain database: specification and claims                                *)
(***************************************************************************)
DbInit ==
    /\ GenesisIdle
    /\ ConfigIdle
    /\ DirIdle
    /\ HostIdle
    /\ EndpointIdle
    /\ RegistryIdle
    /\ chaindb \in {EmptyChainDB, UnreadableChainDB}
                      \cup {ChainDBWithHead(h) : h \in Headers}
    /\ dbStart = chaindb
    /\ dbBefore = EmptyChainDB
    /\ dbResult = NotCalled
    /\ dbPersisted = <<>>
    /\ persistLog = <<>>
    /\ dbCalls = 0
    /\ dbProbe = NotCalled

\* A caller runs initialize_database(cfg, chaindb) with a config of any
\* network id.
InitializeDatabase ==
    /\ dbCalls < MaxDbCalls
    /\ \E nid \in NetworkIds, custom \in CustomHeaders :
        LET cfg == [chain_config EXCEPT !.network_id = nid, !.custom_genesis = custom]
            out == initialize_database(cfg, chaindb)
        IN  /\ chain_config' = cfg
            /\ chaindb' = out.chaindb
            /\ dbBefore' = chaindb
            /\ dbResult' = out.result
            /\ dbPersisted' = out.persisted
            /\ dbCalls' = dbCalls + 1
            /\ persistLog' = persistLog \o
                   [i \in 1..Len(out.persisted) |->
                       [call |-> dbCalls + 1, header |-> out.persisted[i]]]
            /\ dbProbe' = NotCalled
            /\ UNCHANGED <<genesisVars, endpointVars, registryVars,
                           dirVars, dbStart, hostVars>>

\* A caller runs is_database_initialized(chaindb).
ProbeDatabase ==
    /\ dbProbe' = is_database_initialized(chaindb)
    /\ UNCHANGED <<genesisVars, endpointVars, registryVars,
                   chain_config, dirVars, chaindb, dbStart, dbBefore,
                   dbResult, dbPersisted, persistLog, dbCalls, hostVars>>

DbNext == InitializeDatabase \/ ProbeDatabase

SpecDatabase == DbInit /\ [][DbNext]_vars

DbCalled == dbResult.kind # "not_called"

\* C1: a call of initialize_database on a database with a canonical head
\* calls persist_header not at all and leaves the database as it was; so
\* over every sequence of calls, with any network ids, persist_header is
\* called once in all, by the first call, when the database started without
\* a canonical head, and never when it started with one.
C1_NeverOverwritesHead ==
    /\ (DbCalled /\ dbBefore.canonical_head # NoHead) =>
           /\ dbPersisted = <<>>
           /\ chaindb = dbBefore
    /\ dbCalls >= 1 =>
           IF dbStart.canonical_head = NoHead
               THEN /\ Len(persistLog) = 1
                    /\ persistLog[1].call = 1
               ELSE persistLog = <<>>

\* Three calls were made on a database that started empty; the last one,
\* for another network than the first, found the first call's head.
C1_Witness ==
    /\ dbCalls = 3
    /\ dbStart = EmptyChainDB
    /\ dbBefore.canonical_head = "MAINNET_GENESIS_HEADER"
    /\ chain_config.network_id = ROPSTEN_NETWORK_ID
    /\ chaindb.canonical_head = "MAINNET_GENESIS_HEADER"

\* C2: a call of initialize_database on a database without a canonical head
\* passes exactly one header to persist_header: MAINNET_GENESIS_HEADER for
\* the mainnet id, ROPSTEN_GENESIS_HEADER for the ropsten id, and the
\* config's genesis_header() for every other id.
C2_GenesisSelectedByNetwork ==
    (DbCalled /\ dbBefore.canonical_head = NoHead) =>
        /\ Len(dbPersisted) = 1
        /\ chain_config.network_id = MAINNET_NETWORK_ID
               => dbPersisted[1] = "MAINNET_GENESIS_HEADER"
        /\ chain_config.network_id = ROPSTEN_NETWORK_ID
               => dbPersisted[1] = "ROPSTEN_GENESIS_HEADER"
        /\ chain_config.network_id \notin {MAINNET_NETWORK_ID, ROPSTEN_NETWORK_ID}
               => dbPersisted[1] = genesis_header(chain_config)

\* A private network's config initialised an empty database with its own
\* genesis header.
C2_Witness ==
    /\ DbCalled
    /\ dbBefore = EmptyChainDB
    /\ chain_config.network_id = 4
    /\ chain_config.custom_genesis = "CUSTOM_GENESIS_B"
    /\ dbPersisted = <<"CUSTOM_GENESIS_B">>
    /\ chaindb.canonical_head = "CUSTOM_GENESIS_B"

\* C17: is_database_initialized answers False when get_canonical_head fails
\* with CanonicalHeadNotFound and True when it returns a head; neither it
\* nor initialize_database ever fails with CanonicalHeadNotFound; any other
\* failure of get_canonical_head leaves either function as it is, and
\* initialize_database has then persisted no header and left the database
\* as it was.
C17_OnlyNotFoundIsCaught ==
    /\ dbProbe.kind # "not_called" =>
           /\ dbProbe.type # "CanonicalHeadNotFound"
           /\ chaindb.canonical_head = NoHead => dbProbe = Return("False")
           /\ chaindb.canonical_head = Unreadable => dbProbe = Raise("OSError", "")
           /\ chaindb.canonical_head \notin {NoHead, Unreadable}
                  => dbProbe = Return("True")
    /\ DbCalled =>
           /\ dbResult.type # "CanonicalHeadNotFound"
           /\ dbBefore.canonical_head = Unreadable =>
                  /\ dbResult = Raise("OSError", "")
                  /\ dbPersisted = <<>>
                  /\ chaindb = dbBefore
           /\ dbBefore.canonical_head # Unreadable => dbResult = Return("None")

\* On a database whose canonical head cannot be read, initialize_database
\* failed with the store's error and persisted nothing, and so did the
\* is_database_initialized call made after it.
C17_Witness ==
    /\ dbBefore = UnreadableChainDB
    /\ dbResult = Raise("OSError", "")
    /\ dbPersisted = <<>>
    /\ chaindb = UnreadableChainDB
    /\ dbProbe = Raise("OSError", "")

(***************************************************************************)
(* The chaindb manager: specification and claims                           *)
(***************************************************************************)
HostInit ==
    /\ GenesisIdle
    /\ DirIdle
    /\ EndpointIdle
    /\ RegistryIdle
    /\ chain_config \in {c \in ChainConfigs :
                            /\ c.data_dir_xdg = DefaultConfig.data_dir_xdg
                            /\ c.logdir_xdg = DefaultConfig.logdir_xdg
                            /\ c.explicit_nodekey = DefaultConfig.explicit_nodekey}
    /\ chaindb \in {EmptyChainDB, UnreadableChainDB}
                      \cup {ChainDBWithHead(h) : h \in Headers}
    /\ dbStart = chaindb
    /\ dbBefore = EmptyChainDB
    /\ dbResult = NotCalled
    /\ dbPersisted = <<>>
    /\ persistLog = <<>>
    /\ dbCalls = 0
    /\ dbProbe = NotCalled
    /\ HostIdle

\* get_chaindb_manager, lines 267-270: the chaindb is made over base_db and
\* initialised if it is not; an exception is_database_initialized lets
\* through ends the call.
EnsureDatabase ==
    /\ hostPc = "start"
    /\ chaindb' = ensure_database(chain_config, chaindb)
    /\ hostPc' = IF is_database_initialized(chaindb).kind = "raise"
                     THEN "raised" ELSE "db_ready"
    /\ UNCHANGED <<genesisVars, endpointVars, registryVars,
                   chain_config, dirVars, dbHistory, chain_class,
                   threads, wire, clientSeen, hostRaised, importLog>>

\* Lines 271-277: the chain class is selected and the chain made.
BuildChain ==
    /\ hostPc = "db_ready"
    /\ chain_class' = select_chain_class(chain_config)
    /\ hostPc' = "chain_built"
    /\ UNCHANGED <<genesisVars, endpointVars, registryVars,
                   chain_config, dirVars, dbVars, threads, wire,
                   clientSeen, hostRaised, importLog>>

\* Lines 279-310: headerdb and header_chain are made, the five names are
\* registered and the manager is returned.
RegisterResources ==
    /\ hostPc = "chain_built"
    /\ hostPc' = "returned"
    /\ UNCHANGED <<genesisVars, endpointVars, registryVars,
                   chain_config, dirVars, dbVars, chain_class,
                   threads, wire, clientSeen, hostRaised, importLog>>

\* The caller starts the manager it was returned: the server listens.
StartManager ==
    /\ hostPc = "returned"
    /\ hostPc' = "listening"
    /\ UNCHANGED <<genesisVars, endpointVars, registryVars,
                   chain_config, dirVars, dbVars, chain_class,
                   threads, wire, clientSeen, hostRaised, importLog>>

\* Client c may make a call: the server listens, c's thread is not inside a
\* call and no reply to c is in flight.
CanCall(c) ==
    /\ hostPc = "listening"
    /\ threads[c].pc # "importing"
    /\ wire[c] = NoMessage

\* The thread serving c runs a method of the wrapped chaindb and sends the
\* reply.
Serve(c, result) ==
    LET raw == MethodOutcome(result)
    IN  /\ wire' = [wire EXCEPT ![c] = Reply(record_traceback_on_error(raw))]
        /\ hostRaised' = [hostRaised EXCEPT ![c] = raw.exc]
        /\ clientSeen' = [clientSeen EXCEPT ![c] = NoOutcome]

\* Client c calls get_canonical_head() on its chaindb proxy.
CallGetCanonicalHead ==
    \E c \in Clients :
        /\ CanCall(c)
        /\ Serve(c, get_canonical_head(chaindb))
        /\ UNCHANGED <<genesisVars, endpointVars, registryVars,
                       chain_config, dirVars, dbVars, hostPc,
                       chain_class, threads, importLog>>

\* Client c calls get_block_header_by_hash(h) on its chaindb proxy, for the
\* hash h of a block.
CallGetHeader ==
    \E c \in Clients, h \in Blocks :
        /\ CanCall(c)
        /\ Serve(c, get_block_header_by_hash(chaindb, h))
        /\ UNCHANGED <<genesisVars, endpointVars, registryVars,
                       chain_config, dirVars, dbVars, hostPc,
                       chain_class, threads, importLog>>

\* Client c calls import_block(b) on its chain proxy; the thread serving c
\* enters import_block and reads the canonical head.
ImportBlockRead ==
    \E c \in Clients, b \in Blocks :
        /\ CanCall(c)
        /\ threads[c].pc = "idle"
        /\ threads' = [threads EXCEPT ![c] =
               [pc |-> "importing", block |-> b, seen |-> import_block_read(chaindb)]]
        /\ clientSeen' = [clientSeen EXCEPT ![c] = NoOutcome]
        /\ hostRaised' = [hostRaised EXCEPT ![c] = NoException]
        /\ UNCHANGED <<genesisVars, endpointVars, registryVars,
                       chain_config, dirVars, dbVars, hostPc,
                       chain_class, wire, importLog>>

\* The thread serving c finishes import_block and sends the reply.
ImportBlockWrite ==
    \E c \in Clients :
        /\ threads[c].pc = "importing"
        /\ chaindb' = import_block_write(chaindb, threads[c].block, threads[c].seen)
        /\ importLog' = Append(importLog,
               [client |-> c, block |-> threads[c].block, seen |-> threads[c].seen,
                head_after |-> chaindb'.canonical_head])
        /\ threads' = [threads EXCEPT ![c].pc = "imported"]
        /\ wire' = [wire EXCEPT ![c] =
               Reply(record_traceback_on_error(Returned("imported")))]
        /\ UNCHANGED <<genesisVars, endpointVars, registryVars,
                       chain_config, dirVars, dbHistory, hostPc,
                       chain_class, clientSeen, hostRaised>>

\* Client c receives the reply to its call.
Receive ==
    \E c \in Clients :
        /\ wire[c] # NoMessage
        /\ clientSeen' = [clientSeen EXCEPT ![c] = Unpickle(wire[c])]
        /\ wire' = [wire EXCEPT ![c] = NoMessage]
        /\ UNCHANGED <<genesisVars, endpointVars, registryVars,
                       chain_config, dirVars, dbVars, hostPc,
                       chain_class, threads, hostRaised, importLog>>

HostNext ==
    \/ EnsureDatabase
    \/ BuildChain
    \/ RegisterResources
    \/ StartManager
    \/ CallGetCanonicalHead
    \/ CallGetHeader
    \/ ImportBlockRead
    \/ ImportBlockWrite
    \/ Receive

SpecHost == HostInit /\ [][HostNext]_vars

\* The remote trace a client is to find as the cause of exception e: the
\* host's frames and e's type and message, as text between triple quotes.
RemoteTraceOf(e) ==
    <<"\n\"\"\"\n", "Traceback (most recent call last):", "host frames",
      e.type, e.msg, "\"\"\"">>

\* C8: when a method of a wrapped resource raises e in the host, the reply
\* carries the ChainedExceptionWithTraceback's reduction, and the client's
\* call raises an exception of e's type and message, never the container,
\* whose __cause__ is a RemoteTraceback holding the formatted remote trace.
C8_ErrorIdentitySurvives ==
    \A c \in Clients :
        /\ wire[c].kind = "#ERROR" =>
               /\ wire[c].func = "rebuild_exc"
               /\ wire[c].tb = RemoteTraceOf(hostRaised[c])
        /\ clientSeen[c].kind = "raise" =>
               /\ hostRaised[c].type # "None"
               /\ clientSeen[c].exc.type = hostRaised[c].type
               /\ clientSeen[c].exc.msg = hostRaised[c].msg
               /\ clientSeen[c].exc.type # "ChainedExceptionWithTraceback"
               /\ clientSeen[c].exc.cause = RemoteTraceback(RemoteTraceOf(hostRaised[c]))
        /\ (hostRaised[c].type # "None" /\ wire[c] = NoMessage) =>
               clientSeen[c].kind = "raise"

\* A client asked for a block that is not stored and its call raised
\* HeaderNotFound with the remote trace as cause.
C8_Witness ==
    \E c \in Clients :
        /\ clientSeen[c].kind = "raise"
        /\ clientSeen[c].exc.type = "HeaderNotFound"
        /\ clientSeen[c].exc.msg = "BLOCK_A"
        /\ clientSeen[c].exc.cause.type = "RemoteTraceback"

ImportedAlone(db, b) == import_block_write(db, b, import_block_read(db))

\* C10: when two clients' import_block calls on the hosted chain have both
\* completed, the chaindb is the one the two imports leave when they run
\* one after the other, in their order of completion, on the database
\* get_chaindb_manager prepared: the second import worked on what the first
\* left, and the canonical head is that single tip.
C10_ImportsSerialized ==
    Len(importLog) = 2 =>
        chaindb = ImportedAlone(
                      ImportedAlone(ensure_database(chain_config, dbStart),
                                    importLog[1].block),
                      importLog[2].block)

\* The genesis headers the chaindb stores.
GenesisStored == chaindb.headers \cap (FixedGenesisHeaders \cup CustomHeaders)

\* C20: the chain class get_chaindb_manager hosts is MainnetChain for the
\* mainnet id, RopstenChain for the ropsten id and PrivateChain for every
\* other id; and when the same call initialised the database, the one
\* genesis header stored is that network's: MAINNET_GENESIS_HEADER,
\* ROPSTEN_GENESIS_HEADER, or the config's genesis_header().
C20_ChainClassMatchesGenesis ==
    chain_class # "None" =>
        /\ chain_config.network_id = MAINNET_NETWORK_ID =>
               /\ chain_class = "MainnetChain"
               /\ dbStart = EmptyChainDB => GenesisStored = {"MAINNET_GENESIS_HEADER"}
        /\ chain_config.network_id = ROPSTEN_NETWORK_ID =>
               /\ chain_class = "RopstenChain"
               /\ dbStart = EmptyChainDB => GenesisStored = {"ROPSTEN_GENESIS_HEADER"}
        /\ chain_config.network_id \notin {MAINNET_NETWORK_ID, ROPSTEN_NETWORK_ID} =>
               /\ chain_class = "PrivateChain"
               /\ dbStart = EmptyChainDB => GenesisStored = {genesis_header(chain_config)}

\* A manager for the ropsten network listens over a database the call
\* initialised, whose one genesis header is ropsten's.
C20_Witness ==
    /\ hostPc = "listening"
    /\ dbStart = EmptyChainDB
    /\ chain_config.network_id = ROPSTEN_NETWORK_ID
    /\ chain_class = "RopstenChain"
    /\ GenesisStored = {"ROPSTEN_GENESIS_HEADER"}

(***************************************************************************)
(* The manager's endpoint: specification and claims                        *)
(***************************************************************************)
EndpointInit ==
    /\ GenesisIdle
    /\ ConfigIdle
    /\ DirIdle
    /\ DbIdle
    /\ HostIdle
    /\ RegistryIdle
    /\ EndpointIdle

\* Hosting process h calls get_chaindb_manager with the config of a data
\* dir: the resources are registered and the manager is returned with its
\* address (the database part of the call is followed in SpecHost).
GetManager ==
    \E h \in Hosts, dir \in DataDirs :
        /\ managers[h].state = "Unregistered"
        /\ managers' = [managers EXCEPT ![h] =
               [state |-> "Registered", data_dir |-> dir,
                address |-> manager_address(dir)]]
        /\ UNCHANGED <<genesisVars, chain_config, dirVars, dbVars, hostVars,
                       endpoints, startResult, startSaw, registryVars>>

\* Hosting process h starts its manager.
StartHost ==
    \E h \in Hosts :
        LET out == manager_start(endpoints, managers[h].address)
        IN  /\ managers[h].state = "Registered"
            /\ endpoints' = out.endpoints
            /\ startResult' = [startResult EXCEPT ![h] = out.result]
            /\ startSaw' = [startSaw EXCEPT ![h] =
                   {g \in Hosts \ {h} :
                       /\ managers[g].state = "Listening"
                       /\ managers[g].data_dir = managers[h].data_dir}]
            /\ managers' = [managers EXCEPT ![h].state =
                   IF out.result.kind = "return" THEN "Listening" ELSE "Registered"]
            /\ UNCHANGED <<genesisVars, chain_config, dirVars, dbVars, hostVars,
                           registryVars>>

\* Hosting process h shuts its manager down.
ShutdownHost ==
    \E h \in Hosts :
        /\ managers[h].state = "Listening"
        /\ endpoints' = manager_shutdown(endpoints, managers[h].address)
        /\ managers' = [managers EXCEPT ![h].state = "Stopped"]
        /\ UNCHANGED <<genesisVars, chain_config, dirVars, dbVars, hostVars,
                       startResult, startSaw, registryVars>>

EndpointNext == GetManager \/ StartHost \/ ShutdownHost

SpecEndpoint == EndpointInit /\ [][EndpointNext]_vars

\* C11: the managers made for one data dir share one address, which one
\* listening host holds at a time: starting a manager fails, with
\* AddressInUseError, exactly when another host made for the same data dir
\* is listening at that moment; so it succeeds once that host has shut down,
\* and two hosts of one data dir never listen together.
C11_EndpointExclusive ==
    \A h \in Hosts :
        /\ startResult[h].kind = "raise" =>
               /\ startResult[h].type = "AddressInUseError"
               /\ startSaw[h] # {}
               /\ managers[h].state = "Registered"
        /\ startResult[h].kind = "return" => startSaw[h] = {}
        /\ \A g \in Hosts \ {h} :
               (managers[h].state = "Listening" /\ managers[g].state = "Listening")
                   => managers[h].data_dir # managers[g].data_dir

\* Three hosts of one data dir: one listened and has shut down, one started
\* with success after that and listens, and the third's start failed.
C11_Witness ==
    \E h1, h2, h3 \in Hosts :
        /\ managers[h1].state = "Stopped"
        /\ managers[h2].state = "Listening"
        /\ managers[h3].state = "Registered"
        /\ managers[h1].data_dir = managers[h2].data_dir
        /\ managers[h2].data_dir = managers[h3].data_dir
        /\ startResult[h2] = Return("None")
        /\ startResult[h3] = Raise("AddressInUseError", "")
        /\ startSaw[h3] = {h2}

(***************************************************************************)
(* The registered resources: specification and claims                      *)
(***************************************************************************)
RegistryInit ==
    /\ GenesisIdle
    /\ ConfigIdle
    /\ DirIdle
    /\ DbIdle
    /\ HostIdle
    /\ EndpointIdle
    /\ regPc = "Unregistered"
    /\ objects = NoObjects
    /\ constructed = <<Construction("db", base_db)>>
    /\ recorders = <<>>
    /\ lookup = NoLookup

\* get_chaindb_manager, lines 267-310: the resources are constructed over
\* base_db and the five callables registered (the database part of the call
\* is followed in SpecHost).
MakeManager ==
    /\ regPc = "Unregistered"
    /\ objects' = construct_resources(constructed).objects
    /\ constructed' = construct_resources(constructed).constructed
    /\ regPc' = "Registered"
    /\ UNCHANGED <<genesisVars, chain_config, dirVars, dbVars, hostVars,
                   endpointVars, recorders, lookup>>

\* The caller starts the manager.
StartRegistry ==
    /\ regPc = "Registered"
    /\ regPc' = "Listening"
    /\ UNCHANGED <<genesisVars, chain_config, dirVars, dbVars, hostVars,
                   endpointVars, objects, constructed, recorders, lookup>>

\* Client c asks the listening manager for the resource registered as n:
\* the server calls the registered callable and keeps the recorder it gives.
RequestProxy ==
    \E c \in Clients, n \in ResourceNames :
        LET out == registered_callable(n, objects, constructed)
        IN  /\ regPc = "Listening"
            /\ Len(recorders) < MaxRequests
            /\ recorders' = Append(recorders,
                   [client |-> c, name |-> n, recorder |-> out.recorder])
            /\ constructed' = out.constructed
            /\ UNCHANGED <<genesisVars, chain_config, dirVars, dbVars, hostVars,
                           endpointVars, regPc, objects, lookup>>

\* The server fetches an attribute of a resource through one of the
\* recorders and, if it is callable, calls what it got.
LookupAttribute ==
    \E i \in 1..Len(recorders), a \in Attributes :
        LET got == TracebackRecorder_getattr(a)
        IN  /\ regPc = "Listening"
            /\ lookup' = [name |-> recorders[i].name, attr |-> a, got |-> got.attr,
                          wrapped |-> got.wrapped,
                          outcome |-> IF callable(a) THEN call_got(got) ELSE NoOutcome]
            /\ UNCHANGED <<genesisVars, chain_config, dirVars, dbVars, hostVars,
                           endpointVars, regPc, objects, constructed, recorders>>

\* The caller shuts the manager down.
ShutdownRegistry ==
    /\ regPc = "Listening"
    /\ regPc' = "Stopped"
    /\ UNCHANGED <<genesisVars, chain_config, dirVars, dbVars, hostVars,
                   endpointVars, objects, constructed, recorders, lookup>>

RegistryNext ==
    \/ MakeManager
    \/ StartRegistry
    \/ RequestProxy
    \/ LookupAttribute
    \/ ShutdownRegistry

SpecRegistry == RegistryInit /\ [][RegistryNext]_vars

\* C16 as stated: an attribute that is not callable is given unchanged, and
\* every callable attribute, of whatever kind, is given wrapped: its value
\* is returned as it is, and an exception it raises reaches the caller as a
\* ChainedExceptionWithTraceback.
C16_EveryCallableWrapped ==
    lookup.attr # NoAttribute =>
        /\ lookup.got = lookup.attr
        /\ ~callable(lookup.attr) => ~lookup.wrapped
        /\ callable(lookup.attr) =>
               /\ ~lookup.attr.raises => lookup.outcome = call(lookup.attr)
               /\ lookup.attr.raises =>
                      /\ lookup.outcome.kind = "raise"
                      /\ lookup.outcome.exc.type = "ChainedExceptionWithTraceback"

\* The constructions of the resource registered as n.
ConstructionsOf(n) == {i \in 1..Len(constructed) : constructed[i].name = n}

\* C18: once get_chaindb_manager has run, each of the five names has one
\* instance, constructed once, the five instances differ, and every recorder
\* made for a proxy request, of any client at any time, holds the instance of
\* its name; the instance a name stands for is never replaced.
C18_SingletonResources ==
    /\ [](regPc # "Unregistered" =>
            \A n \in ResourceNames :
                /\ objects[n] # NoObject
                /\ Cardinality(ConstructionsOf(n)) = 1
                /\ \A i \in ConstructionsOf(n) : constructed[i].id = objects[n]
                /\ \A m \in ResourceNames \ {n} : objects[m] # objects[n])
    /\ [](\A i \in 1..Len(recorders) :
            recorders[i].recorder.obj = objects[recorders[i].name])
    /\ [][regPc # "Unregistered" => objects' = objects]_vars

\* Two clients each asked for the chain and their two recorders hold the
\* one chain instance.
C18_Witness ==
    /\ Len(recorders) = 2
    /\ recorders[1].client # recorders[2].client
    /\ recorders[1].name = "chain"
    /\ recorders[2].name = "chain"
    /\ recorders[1].recorder.obj = recorders[2].recorder.obj
    /\ recorders[1].recorder.obj = objects["chain"]
    /\ Cardinality(ConstructionsOf("chain")) = 1

====
